---- MODULE Spec2Model ----
(***************************************************************************)
(* Model of expanda.ext.wiki: the two-stage wikipedia dump extractor.      *)
(*                                                                         *)
(* Text is a sequence of one-character strings.  The orchestrator          *)
(* (_extract_wiki_corpus), the N Stage-1 workers (_process_article_worker) *)
(* and the N Stage-2 workers (_tokenize_sentences_worker) are separate     *)
(* processes; every action below is one step of one of them.               *)
(*                                                                         *)
(* The articles of the model carry no wiki markup, so that the external    *)
(* parser (mwparserfromhell) yields one lead section whose strip_code()    *)
(* is the text itself; the sentence tokenizers (nltk, kss) are external    *)
(* as well and are modelled by punctuation-based splitters.                *)
(***************************************************************************)
EXTENDS Integers, Sequences, FiniteSets, TLC

VARIABLES
    dump,       \* the <page> elements of the export, in document order
    lang,       \* value of the root's *lang attribute, or NoLang
    num_cores,  \* args['num-cores']
    min_len,    \* args['min-length']
    pc,         \* orchestrator's position in _extract_wiki_corpus
    i,          \* orchestrator's loop index (0-based) in the current loop
    pos,        \* 1-based index of the next page the reader parses
    err,        \* exception that ended the orchestrator, or "none"
    queue,      \* multiprocessing.Queue: FIFO of items
    w1pc,       \* Stage-1 worker positions
    held,       \* item a Stage-1 worker dequeued and has not written yet
    w2pc,       \* Stage-2 worker positions
    w2pos,      \* 1-based index of the next shard line a Stage-2 worker reads
    fs,         \* names of the files and directories that exist
    wiki,       \* content of wiki{i}
    split,      \* content of split{i}
    out,        \* content of output_file
    deq,        \* history: page indices each Stage-1 worker dequeued, in order
    tokenized   \* history: the lines handed to tokenize_sentence

vars == <<dump, lang, num_cores, min_len, pc, i, pos, err, queue, w1pc, held,
          w2pc, w2pos, fs, wiki, split, out, deq, tokenized>>

-----------------------------------------------------------------------------
(* Bounds of the model. *)

MaxPages == 2
MaxCores == 2
MinLength == 3

(* Queue(maxsize=10 * args['num-cores']) *)
QueueFactor == 10

-----------------------------------------------------------------------------
(* Text helpers (Python str semantics). *)

NL == "\n"
Whitespace == {" ", NL}
Punct == <<"!", "?", ".">>

Min(S) == CHOOSE x \in S : \A y \in S : x <= y
Max(S) == CHOOSE x \in S : \A y \in S : x >= y

(* str.lower() on one character *)
LowerChar(c) ==
    CASE c = "R" -> "r" [] c = "E" -> "e" [] c = "D" -> "d" [] c = "I" -> "i"
      [] c = "C" -> "c" [] c = "T" -> "t" [] c = "A" -> "a" [] c = "B" -> "b"
      [] OTHER -> c

Lower(s) == [k \in 1..Len(s) |-> LowerChar(s[k])]

StartsWith(s, p) == Len(s) >= Len(p) /\ SubSeq(s, 1, Len(p)) = p

EndsWith(s, c) == Len(s) >= 1 /\ s[Len(s)] = c

(* str.strip() *)
Strip(s) ==
    LET keep == {k \in 1..Len(s) : s[k] \notin Whitespace}
    IN  IF keep = {} THEN <<>> ELSE SubSeq(s, Min(keep), Max(keep))

FirstNL(s) ==
    LET at == {k \in 1..Len(s) : s[k] = NL}
    IN  IF at = {} THEN 0 ELSE Min(at)

(* str.splitlines(): the lines without their terminators *)
RECURSIVE SplitLines(_)
SplitLines(s) ==
    IF s = <<>> THEN <<>>
    ELSE LET k == FirstNL(s)
         IN  IF k = 0 THEN <<s>>
             ELSE <<SubSeq(s, 1, k - 1)>> \o SplitLines(SubSeq(s, k + 1, Len(s)))

(* iteration over a text file: the lines with their terminators *)
RECURSIVE FileLines(_)
FileLines(s) ==
    IF s = <<>> THEN <<>>
    ELSE LET k == FirstNL(s)
         IN  IF k = 0 THEN <<s>>
             ELSE <<SubSeq(s, 1, k)>> \o FileLines(SubSeq(s, k + 1, Len(s)))

(* sep.join(parts) *)
RECURSIVE Join(_, _)
Join(parts, sep) ==
    IF parts = <<>> THEN <<>>
    ELSE IF Len(parts) = 1 THEN parts[1]
    ELSE parts[1] \o sep \o Join(Tail(parts), sep)

RECURSIVE Concat(_)
Concat(parts) == IF parts = <<>> THEN <<>> ELSE parts[1] \o Concat(Tail(parts))

NonEmpty(s) == s # <<>>

-----------------------------------------------------------------------------
(* _clean_wiki_text, for markup-free code: one lead section. *)

(* lines 62-66: the line ends with one of '!?.' *)
Ordinary(line) == \E k \in 1..Len(Punct) : EndsWith(line, Punct[k])

(* lines 37-54: section_text, the stripped plain text of every section *)
SectionText(code) == <<Strip(code)>>

(* lines 58-69: the ordinary lines of one section *)
FilteredLines(text) == SelectSeq(SplitLines(Strip(text)), Ordinary)

(* lines 58-71 *)
CleanWikiText(code) ==
    LET sections == SectionText(code)
        filtered == Concat([k \in 1..Len(sections) |-> FilteredLines(sections[k])])
    IN  Join(filtered, <<NL>>)

-----------------------------------------------------------------------------
(* Sentence tokenizers, chosen by language in _tokenize_sentences_worker. *)

Supported == {"en", "ko"}
NoLang == "(no lang attribute)"

PunctSet == {Punct[k] : k \in 1..Len(Punct)}

RECURSIVE CutAt(_, _, _)
CutAt(s, B, from) ==
    IF from > Len(s) THEN <<>>
    ELSE LET nb == {k \in B : k >= from}
         IN  IF nb = {} THEN <<SubSeq(s, from, Len(s))>>
             ELSE <<SubSeq(s, from, Min(nb))>> \o CutAt(s, B, Min(nb) + 1)

StripAll(parts) == [k \in 1..Len(parts) |-> Strip(parts[k])]

(* nltk.tokenize.sent_tokenize: a sentence ends at a punctuation mark that is
   followed by whitespace or by the end of the text; no empty sentence *)
SentTokenize(line) ==
    LET B == {k \in 1..Len(line) : /\ line[k] \in PunctSet
                                   /\ (k = Len(line) \/ line[k + 1] \in Whitespace)}
    IN  SelectSeq(StripAll(CutAt(line, B, 1)), NonEmpty)

(* kss.split_sentences: a sentence ends at every punctuation mark; what is
   left after the last one is returned as well, possibly empty *)
SplitSentences(line) ==
    LET B == {k \in 1..Len(line) : line[k] \in PunctSet}
    IN  StripAll(CutAt(line, B, 1))

(* lines 90-103 *)
TokenizeSentence(lg, line) ==
    IF lg = "en" THEN SentTokenize(line) ELSE SplitSentences(line)

(* line 110: the line is skipped *)
TooShort(line, m) == Len(line) < m

(* line 114: what is written for one line of the shard *)
SentenceLines(sentences) == Join(SelectSeq(sentences, NonEmpty), <<NL>>) \o <<NL>>

-----------------------------------------------------------------------------
(* Pages of the dump. *)

NoElem == "(no element)"
Page(ns, tag, s) == [ns |-> ns, tag |-> tag, text |-> s]

TextA == <<"a", ".", " ", "c", "?", NL>>
TextB == <<"b", "!", NL, "d", NL, "e", ".">>
TextRedirect == <<"#", "R", "E", "D", "I", "R", "E", "C", "T", " ", "a", ".">>

PageKinds ==
    { Page("0", "str", TextA),
      Page("0", "str", TextB),
      Page("0", "str", TextRedirect),
      Page("1", "str", TextA),
      Page("0", "None", <<>>),
      Page(NoElem, "str", TextA),
      Page("0", NoElem, <<>>) }

RedirectPrefix == <<"#", "r", "e", "d", "i", "r", "e", "c", "t">>

(* line 163: the page is not of namespace 0 *)
NotMain(page) == page.ns # "0"

(* the redirect test without lower() *)
SkipArticleCaseSensitive(page) ==
    page.tag = "None" \/ StartsWith(page.text, RedirectPrefix)

(* line 172: empty or redirection article *)
SkipArticle(page) == page.tag = "None" \/ StartsWith(Lower(page.text), RedirectPrefix)

(* lines 163, 168: elem.find(...) is None, so `.text` raises AttributeError *)
Malformed(page) == page.ns = NoElem \/ (~NotMain(page) /\ page.tag = NoElem)

-----------------------------------------------------------------------------
(* Queue items. *)

Sentinel == [tag |-> "None", idx |-> 0, code |-> <<>>]
Article(k, code) == [tag |-> "str", idx |-> k, code |-> code]
NoItem == [tag |-> "nothing", idx |-> 0, code |-> <<>>]

(* Queue(maxsize=10 * args['num-cores']) *)
MaxSize == QueueFactor * num_cores

(* a queue without a bound *)
CanPutAlways(q) == TRUE

(* queue.put blocks while the queue is full *)
CanPut(q) == Len(q) < MaxSize

(* a put at the head of the queue *)
PutFront(q, item) == <<item>> \o q

(* queue.put(item) *)
Put(q, item) == Append(q, item)

(* queue.get: the item taken, and the queue left *)
GetItem(q) == Head(q)
GetRestKeep(q) == q
GetRest(q) == Tail(q)

Workers == 0..(num_cores - 1)


-----------------------------------------------------------------------------
(* Initial states. *)

Dumps == UNION {[1..n -> PageKinds] : n \in 0..MaxPages}

(* a dump with more articles than the queue of one worker holds *)
LongDump == [k \in 1..(QueueFactor + MaxPages) |-> Page("0", "str", TextA)]
Langs == Supported \cup {"xx", NoLang}

Init ==
    /\ dump \in Dumps \cup {LongDump}
    /\ lang \in Langs
    /\ num_cores \in 1..MaxCores
    /\ dump = LongDump => num_cores = 1
    /\ min_len = MinLength
    /\ pc = "start1"
    /\ i = 0
    /\ pos = 1
    /\ err = "none"
    /\ queue = <<>>
    /\ w1pc = [w \in Workers |-> "idle"]
    /\ held = [w \in Workers |-> NoItem]
    /\ w2pc = [w \in Workers |-> "idle"]
    /\ w2pos = [w \in Workers |-> 1]
    /\ fs = {}
    /\ wiki = [w \in Workers |-> <<>>]
    /\ split = [w \in Workers |-> <<>>]
    /\ out = <<>>
    /\ deq = [w \in Workers |-> <<>>]
    /\ tokenized = {}

WikiFile(w) == <<"wiki", w>>
SplitFile(w) == <<"split", w>>
TmpDir(w) == <<"tmp", w>>
OutputFile == <<"output", 0>>

(* the loop `for i in range(args['num-cores'])` moves on, or ends and the
   orchestrator goes to `next` *)
LoopStep(next) ==
    IF i + 1 < num_cores
    THEN /\ i' = i + 1 /\ pc' = pc
    ELSE /\ i' = 0 /\ pc' = next

Fail(e) == pc' = "failed" /\ err' = e

-----------------------------------------------------------------------------
(* Orchestrator, Stage 1: lines 144-182. *)

(* lines 148-153: start Stage-1 worker i *)
StartCleaner ==
    /\ pc = "start1"
    /\ w1pc' = [w1pc EXCEPT ![i] = "started"]
    /\ LoopStep("read")
    /\ UNCHANGED <<dump, lang, num_cores, min_len, pos, err, queue, held, w2pc,
                   w2pos, fs, wiki, split, out, deq, tokenized>>

(* lines 157-173: a page that is skipped *)
ReadSkip ==
    /\ pc = "read"
    /\ pos <= Len(dump)
    /\ ~Malformed(dump[pos])
    /\ NotMain(dump[pos]) \/ SkipArticle(dump[pos])
    /\ pos' = pos + 1
    /\ UNCHANGED <<dump, lang, num_cores, min_len, pc, i, err, queue, w1pc, held,
                   w2pc, w2pos, fs, wiki, split, out, deq, tokenized>>

(* lines 157-176: an article is put into the queue *)
ReadPut ==
    /\ pc = "read"
    /\ pos <= Len(dump)
    /\ ~Malformed(dump[pos])
    /\ ~NotMain(dump[pos])
    /\ ~SkipArticle(dump[pos])
    /\ CanPut(queue)
    /\ queue' = Put(queue, Article(pos, dump[pos].text))
    /\ pos' = pos + 1
    /\ UNCHANGED <<dump, lang, num_cores, min_len, pc, i, err, w1pc, held,
                   w2pc, w2pos, fs, wiki, split, out, deq, tokenized>>

(* lines 163, 168: elem.find(...) returns None, `.text` raises *)
ReadFail ==
    /\ pc = "read"
    /\ pos <= Len(dump)
    /\ Malformed(dump[pos])
    /\ Fail("AttributeError")
    /\ UNCHANGED <<dump, lang, num_cores, min_len, i, pos, queue, w1pc, held,
                   w2pc, w2pos, fs, wiki, split, out, deq, tokenized>>

(* line 157: the dump is exhausted *)
ReadEnd ==
    /\ pc = "read"
    /\ pos > Len(dump)
    /\ pc' = "finish"
    /\ i' = 0
    /\ UNCHANGED <<dump, lang, num_cores, min_len, pos, err, queue, w1pc, held,
                   w2pc, w2pos, fs, wiki, split, out, deq, tokenized>>

(* one None for all the workers together *)
PutSentinelOnce ==
    /\ pc = "finish"
    /\ CanPut(queue)
    /\ queue' = Put(queue, Sentinel)
    /\ pc' = "join1"
    /\ i' = 0
    /\ UNCHANGED <<dump, lang, num_cores, min_len, pos, err, w1pc, held,
                   w2pc, w2pos, fs, wiki, split, out, deq, tokenized>>

(* lines 179-180: one None per worker *)
PutSentinel ==
    /\ pc = "finish"
    /\ CanPut(queue)
    /\ queue' = Put(queue, Sentinel)
    /\ LoopStep("join1")
    /\ UNCHANGED <<dump, lang, num_cores, min_len, pos, err, w1pc, held,
                   w2pc, w2pos, fs, wiki, split, out, deq, tokenized>>

(* a join that does not wait for the worker *)
JoinCleanerNoWait ==
    /\ pc = "join1"
    /\ LoopStep("start2")
    /\ UNCHANGED <<dump, lang, num_cores, min_len, pos, err, queue, w1pc, held,
                   w2pc, w2pos, fs, wiki, split, out, deq, tokenized>>

(* lines 181-182: w.join() returns once worker i has ended, however it ended *)
JoinCleaner ==
    /\ pc = "join1"
    /\ w1pc[i] \in {"exited", "raised"}
    /\ LoopStep("start2")
    /\ UNCHANGED <<dump, lang, num_cores, min_len, pos, err, queue, w1pc, held,
                   w2pc, w2pos, fs, wiki, split, out, deq, tokenized>>

-----------------------------------------------------------------------------
(* Stage-1 worker: _process_article_worker, lines 74-85. *)

(* line 75: open(output_file, 'w') *)
CleanerOpen(w) ==
    /\ w1pc[w] = "started"
    /\ fs' = fs \cup {WikiFile(w)}
    /\ wiki' = [wiki EXCEPT ![w] = <<>>]
    /\ w1pc' = [w1pc EXCEPT ![w] = "get"]
    /\ UNCHANGED <<dump, lang, num_cores, min_len, pc, i, pos, err, queue, held,
                   w2pc, w2pos, split, out, deq, tokenized>>

(* lines 78-80, 85: queue.get(); on None the file is closed and the worker ends *)
CleanerGet(w) ==
    /\ w1pc[w] = "get"
    /\ queue # <<>>
    /\ queue' = GetRest(queue)
    /\ IF GetItem(queue).tag = "None"
       THEN /\ w1pc' = [w1pc EXCEPT ![w] = "exited"]
            /\ UNCHANGED <<held, deq>>
       ELSE /\ w1pc' = [w1pc EXCEPT ![w] = "write"]
            /\ held' = [held EXCEPT ![w] = GetItem(queue)]
            /\ deq' = [deq EXCEPT ![w] = Append(@, GetItem(queue).idx)]
    /\ UNCHANGED <<dump, lang, num_cores, min_len, pc, i, pos, err,
                   w2pc, w2pos, fs, wiki, split, out, tokenized>>

(* a write that puts the cleaned text before what the file holds *)
CleanerWriteFront(w) ==
    /\ w1pc[w] = "write"
    /\ wiki' = [wiki EXCEPT ![w] = CleanWikiText(held[w].code) \o @]
    /\ held' = [held EXCEPT ![w] = NoItem]
    /\ w1pc' = [w1pc EXCEPT ![w] = "get"]
    /\ UNCHANGED <<dump, lang, num_cores, min_len, pc, i, pos, err, queue,
                   w2pc, w2pos, fs, split, out, deq, tokenized>>

(* line 83: file.write(_clean_wiki_text(code, ns)) *)
CleanerWrite(w) ==
    /\ w1pc[w] = "write"
    /\ wiki' = [wiki EXCEPT ![w] = @ \o CleanWikiText(held[w].code)]
    /\ held' = [held EXCEPT ![w] = NoItem]
    /\ w1pc' = [w1pc EXCEPT ![w] = "get"]
    /\ UNCHANGED <<dump, lang, num_cores, min_len, pc, i, pos, err, queue,
                   w2pc, w2pos, fs, split, out, deq, tokenized>>

-----------------------------------------------------------------------------
(* Orchestrator, Stage 2 and merge: lines 184-215. *)

(* lines 186-198: make tmp{i} and start Stage-2 worker i *)
StartTokenizer ==
    /\ pc = "start2"
    /\ lang # NoLang
    /\ fs' = fs \cup {TmpDir(i)}
    /\ w2pc' = [w2pc EXCEPT ![i] = "started"]
    /\ LoopStep("join2")
    /\ UNCHANGED <<dump, lang, num_cores, min_len, pos, err, queue, w1pc, held,
                   w2pos, wiki, split, out, deq, tokenized>>

(* lines 125-128, 193: the root had no *lang attribute, `lang` is unbound *)
StartTokenizerFail ==
    /\ pc = "start2"
    /\ lang = NoLang
    /\ fs' = fs \cup {TmpDir(i)}
    /\ Fail("UnboundLocalError")
    /\ UNCHANGED <<dump, lang, num_cores, min_len, i, pos, queue, w1pc, held,
                   w2pc, w2pos, wiki, split, out, deq, tokenized>>

(* a join that returns only for a worker that returned normally *)
JoinTokenizerOnlyExited ==
    /\ pc = "join2"
    /\ w2pc[i] = "exited"
    /\ LoopStep("cleanup1")
    /\ UNCHANGED <<dump, lang, num_cores, min_len, pos, err, queue, w1pc, held,
                   w2pc, w2pos, fs, wiki, split, out, deq, tokenized>>

(* lines 201-202: w.join() returns once worker i has ended, however it ended *)
JoinTokenizer ==
    /\ pc = "join2"
    /\ w2pc[i] \in {"exited", "raised"}
    /\ LoopStep("cleanup1")
    /\ UNCHANGED <<dump, lang, num_cores, min_len, pos, err, queue, w1pc, held,
                   w2pc, w2pos, fs, wiki, split, out, deq, tokenized>>

(* the cleanup without shutil.rmtree(tmp{i}) *)
RemoveWikiOnly ==
    /\ pc = "cleanup1"
    /\ fs' = fs \ {WikiFile(i)}
    /\ wiki' = [wiki EXCEPT ![i] = <<>>]
    /\ LoopStep("open")
    /\ UNCHANGED <<dump, lang, num_cores, min_len, pos, err, queue, w1pc, held,
                   w2pc, w2pos, split, out, deq, tokenized>>

(* lines 203-205: os.remove(wiki{i}); shutil.rmtree(tmp{i}) *)
RemoveWiki ==
    /\ pc = "cleanup1"
    /\ fs' = fs \ {WikiFile(i), TmpDir(i)}
    /\ wiki' = [wiki EXCEPT ![i] = <<>>]
    /\ LoopStep("open")
    /\ UNCHANGED <<dump, lang, num_cores, min_len, pos, err, queue, w1pc, held,
                   w2pc, w2pos, split, out, deq, tokenized>>

(* line 208: open(output_file, 'wb') *)
OpenOutput ==
    /\ pc = "open"
    /\ fs' = fs \cup {OutputFile}
    /\ out' = <<>>
    /\ pc' = "merge"
    /\ UNCHANGED <<dump, lang, num_cores, min_len, i, pos, err, queue, w1pc, held,
                   w2pc, w2pos, wiki, split, deq, tokenized>>

(* a copy in front of what the output holds *)
CopyFileObjFront(dst, src) == src \o dst

(* line 211: shutil.copyfileobj(src, dst) *)
CopyFileObj(dst, src) == dst \o src

(* lines 209-211: split{i} is appended to the output *)
MergeShard ==
    /\ pc = "merge"
    /\ SplitFile(i) \in fs
    /\ out' = CopyFileObj(out, split[i])
    /\ LoopStep("cleanup2")
    /\ UNCHANGED <<dump, lang, num_cores, min_len, pos, err, queue, w1pc, held,
                   w2pc, w2pos, fs, wiki, split, deq, tokenized>>

(* line 210: open(split{i}, 'rb') of a file that does not exist *)
MergeFail ==
    /\ pc = "merge"
    /\ SplitFile(i) \notin fs
    /\ Fail("FileNotFoundError")
    /\ UNCHANGED <<dump, lang, num_cores, min_len, i, pos, queue, w1pc, held,
                   w2pc, w2pos, fs, wiki, split, out, deq, tokenized>>

(* lines 214-215: os.remove(split{i}) *)
RemoveSplit ==
    /\ pc = "cleanup2"
    /\ fs' = fs \ {SplitFile(i)}
    /\ split' = [split EXCEPT ![i] = <<>>]
    /\ LoopStep("done")
    /\ UNCHANGED <<dump, lang, num_cores, min_len, pos, err, queue, w1pc, held,
                   w2pc, w2pos, wiki, out, deq, tokenized>>

-----------------------------------------------------------------------------
(* Stage-2 worker: _tokenize_sentences_worker, lines 88-114. *)

(* an open that does not create split{w} *)
TokenizerOpenNoCreate(w) ==
    /\ w2pc[w] = "started"
    /\ lang \in Supported
    /\ WikiFile(w) \in fs
    /\ split' = [split EXCEPT ![w] = <<>>]
    /\ w2pos' = [w2pos EXCEPT ![w] = 1]
    /\ w2pc' = [w2pc EXCEPT ![w] = "run"]
    /\ UNCHANGED <<dump, lang, num_cores, min_len, pc, i, pos, err, queue, w1pc,
                   held, fs, wiki, out, deq, tokenized>>

(* lines 90-108: choose the tokenizer, open wiki{w} and split{w} *)
TokenizerOpen(w) ==
    /\ w2pc[w] = "started"
    /\ lang \in Supported
    /\ WikiFile(w) \in fs
    /\ fs' = fs \cup {SplitFile(w)}
    /\ split' = [split EXCEPT ![w] = <<>>]
    /\ w2pos' = [w2pos EXCEPT ![w] = 1]
    /\ w2pc' = [w2pc EXCEPT ![w] = "run"]
    /\ UNCHANGED <<dump, lang, num_cores, min_len, pc, i, pos, err, queue, w1pc,
                   held, wiki, out, deq, tokenized>>

(* lines 104-105: raise NotImplementedError; the worker process ends *)
TokenizerRaise(w) ==
    /\ w2pc[w] = "started"
    /\ lang \notin Supported
    /\ w2pc' = [w2pc EXCEPT ![w] = "raised"]
    /\ UNCHANGED <<dump, lang, num_cores, min_len, pc, i, pos, err, queue, w1pc,
                   held, w2pos, fs, wiki, split, out, deq, tokenized>>

(* lines 109-114: one line of the shard *)
TokenizerLine(w) ==
    /\ w2pc[w] = "run"
    /\ w2pos[w] <= Len(FileLines(wiki[w]))
    /\ LET line == FileLines(wiki[w])[w2pos[w]]
       IN  IF TooShort(line, min_len)
           THEN UNCHANGED <<split, tokenized>>
           ELSE /\ split' = [split EXCEPT ![w] =
                                @ \o SentenceLines(TokenizeSentence(lang, line))]
                /\ tokenized' = tokenized \cup {line}
    /\ w2pos' = [w2pos EXCEPT ![w] = @ + 1]
    /\ UNCHANGED <<dump, lang, num_cores, min_len, pc, i, pos, err, queue, w1pc,
                   held, w2pc, fs, wiki, out, deq>>

(* lines 107-109: the shard is exhausted, both files are closed *)
TokenizerExit(w) ==
    /\ w2pc[w] = "run"
    /\ w2pos[w] > Len(FileLines(wiki[w]))
    /\ w2pc' = [w2pc EXCEPT ![w] = "exited"]
    /\ UNCHANGED <<dump, lang, num_cores, min_len, pc, i, pos, err, queue, w1pc,
                   held, w2pos, fs, wiki, split, out, deq, tokenized>>

-----------------------------------------------------------------------------

Next ==
    \/ StartCleaner
    \/ ReadSkip
    \/ ReadPut
    \/ ReadFail
    \/ ReadEnd
    \/ PutSentinel
    \/ JoinCleaner
    \/ \E w \in Workers : CleanerOpen(w)
    \/ \E w \in Workers : CleanerGet(w)
    \/ \E w \in Workers : CleanerWrite(w)
    \/ StartTokenizer
    \/ StartTokenizerFail
    \/ JoinTokenizer
    \/ RemoveWiki
    \/ OpenOutput
    \/ MergeShard
    \/ MergeFail
    \/ RemoveSplit
    \/ \E w \in Workers : TokenizerOpen(w)
    \/ \E w \in Workers : TokenizerRaise(w)
    \/ \E w \in Workers : TokenizerLine(w)
    \/ \E w \in Workers : TokenizerExit(w)

Spec == Init /\ [][Next]_vars

(* The steps of each process.  The operating system runs every process that
   can take a step: each process is scheduled weakly fairly. *)
Orchestrator ==
    \/ StartCleaner \/ ReadSkip \/ ReadPut \/ ReadFail \/ ReadEnd \/ PutSentinel
    \/ JoinCleaner \/ StartTokenizer \/ StartTokenizerFail \/ JoinTokenizer
    \/ RemoveWiki \/ OpenOutput \/ MergeShard \/ MergeFail \/ RemoveSplit

(* CleanerWrite(w) told by the position of the worker alone: it has the guard
   of CleanerWrite(w), and CleanerWrite(w) is the only action of Next that
   moves worker w from "write" to "get". *)
CleanerWrites(w) ==
    /\ w1pc[w] = "write"
    /\ w1pc' = [w1pc EXCEPT ![w] = "get"]

(* TokenizerLine(w) told by the position of the worker alone: it has the guard
   of TokenizerLine(w), and TokenizerLine(w) is the only action of Next that
   advances w2pos[w] by one line. *)
TokenizerReads(w) ==
    /\ w2pc[w] = "run"
    /\ w2pos[w] <= Len(FileLines(wiki[w]))
    /\ w2pos' = [w2pos EXCEPT ![w] = @ + 1]
    /\ UNCHANGED w2pc

Cleaner(w) == CleanerOpen(w) \/ CleanerGet(w) \/ CleanerWrites(w)

Tokenizer(w) ==
    TokenizerOpen(w) \/ TokenizerRaise(w) \/ TokenizerReads(w) \/ TokenizerExit(w)

FairSpec ==
    /\ Spec
    /\ WF_vars(Orchestrator)
    /\ \A w \in 0..(MaxCores - 1) : WF_w1pc(w \in Workers /\ Cleaner(w))
    /\ \A w \in 0..(MaxCores - 1) : WF_<<w2pc, w2pos>>(w \in Workers /\ Tokenizer(w))

(* line 83: _clean_wiki_text or file.write raises in Stage-1 worker w; nothing
   in the worker catches it, the process ends and the article it held is
   lost *)
CleanerFault(w) ==
    /\ w1pc[w] = "write"
    /\ w1pc' = [w1pc EXCEPT ![w] = "raised"]
    /\ held' = [held EXCEPT ![w] = NoItem]
    /\ UNCHANGED <<dump, lang, num_cores, min_len, pc, i, pos, err, queue,
                   w2pc, w2pos, fs, wiki, split, out, deq, tokenized>>

FaultNext == Next \/ \E w \in Workers : CleanerFault(w)

(* The pipeline with worker faults in both stages.  A fault may happen or
   not: it is not scheduled fairly. *)
FaultSpec ==
    /\ Init /\ [][FaultNext]_vars
    /\ WF_vars(Orchestrator)
    /\ \A w \in 0..(MaxCores - 1) : WF_w1pc(w \in Workers /\ Cleaner(w))
    /\ \A w \in 0..(MaxCores - 1) : WF_<<w2pc, w2pos>>(w \in Workers /\ Tokenizer(w))

(* What a splitter may return for a line without a sentence in it: nothing,
   or only empty strings (line 114 filters them with `if s`). *)
BlankResults == {<<>>, <<<<>>>>}

(* lines 109-114 for a line the splitter finds no sentence in *)
TokenizerLineBlank(w) ==
    /\ w2pc[w] = "run"
    /\ w2pos[w] <= Len(FileLines(wiki[w]))
    /\ ~TooShort(FileLines(wiki[w])[w2pos[w]], min_len)
    /\ \E sentences \in BlankResults :
          split' = [split EXCEPT ![w] = @ \o SentenceLines(sentences)]
    /\ tokenized' = tokenized \cup {FileLines(wiki[w])[w2pos[w]]}
    /\ w2pos' = [w2pos EXCEPT ![w] = @ + 1]
    /\ UNCHANGED <<dump, lang, num_cores, min_len, pc, i, pos, err, queue, w1pc,
                   held, w2pc, fs, wiki, out, deq>>

SplitterNext == Next \/ \E w \in Workers : TokenizerLineBlank(w)

(* The pipeline over any splitter that keeps the contract
   split(line) -> sequence of strings. *)
SplitterSpec == Init /\ [][SplitterNext]_vars

-----------------------------------------------------------------------------
(* Vocabulary of the properties. *)

PageIds == 1..Len(dump)

(* the text starts, case-insensitively, with "#redirect" *)
IsRedirect(s) ==
    /\ Len(s) >= Len(RedirectPrefix)
    /\ \A k \in 1..Len(RedirectPrefix) : LowerChar(s[k]) = RedirectPrefix[k]

(* namespace id "0", a text that is not null, no redirect *)
EligiblePage(p) == p.ns = "0" /\ p.tag = "str" /\ ~IsRedirect(p.text)

Occurrences(seq, x) == Cardinality({k \in 1..Len(seq) : seq[k] = x})

RECURSIVE Sum(_, _)
Sum(f, S) == IF S = {} THEN 0 ELSE LET x == CHOOSE y \in S : TRUE
                                   IN  f[x] + Sum(f, S \ {x})

(* how often page k was dequeued, over all Stage-1 workers *)
TimesDequeued(k) == Sum([w \in Workers |-> Occurrences(deq[w], k)], Workers)

(* how often page k was cleaned and written, over all Stage-1 workers *)
TimesCleaned(k) ==
    TimesDequeued(k) - Cardinality({w \in Workers : held[w].tag = "str" /\ held[w].idx = k})

TimesQueued(k) ==
    Cardinality({n \in 1..Len(queue) : queue[n].tag = "str" /\ queue[n].idx = k})

AllCleanersExited == \A w \in Workers : w1pc[w] = "exited"
AllTokenizersEnded == \A w \in Workers : w2pc[w] \in {"exited", "raised"}

-----------------------------------------------------------------------------
(* C1: every eligible article is dequeued and cleaned by exactly one Stage-1
   worker exactly once.  At every moment an eligible page the reader has
   passed is in exactly one place (still queued, or dequeued once), no page
   is ever dequeued twice, and once all Stage-1 workers have exited every
   eligible page of the dump has been cleaned exactly once. *)
ExactlyOnce ==
    /\ \A k \in PageIds : TimesDequeued(k) <= 1
    /\ \A k \in PageIds :
          (k < pos /\ EligiblePage(dump[k])) => TimesQueued(k) + TimesDequeued(k) = 1
    /\ AllCleanersExited =>
          \A k \in PageIds : EligiblePage(dump[k]) => TimesCleaned(k) = 1

(* both workers of a two-worker run have cleaned an article and have exited *)
ExactlyOnceWitness ==
    /\ num_cores = 2
    /\ AllCleanersExited
    /\ \A w \in Workers : Len(deq[w]) = 1

(* C2: every article in the queue or held by a Stage-1 worker is the text of
   a page with namespace id "0", a non-null text and no "#redirect" prefix;
   no other page is ever dequeued, so none contributes to a shard. *)
OnlyEligibleReachWorkers ==
    /\ \A n \in 1..Len(queue) :
          queue[n].tag = "str" =>
             /\ queue[n].idx \in PageIds
             /\ EligiblePage(dump[queue[n].idx])
             /\ queue[n].code = dump[queue[n].idx].text
    /\ \A w \in Workers :
          held[w].tag = "str" =>
             /\ held[w].idx \in PageIds
             /\ EligiblePage(dump[held[w].idx])
             /\ held[w].code = dump[held[w].idx].text
    /\ \A w \in Workers : \A n \in 1..Len(deq[w]) :
          deq[w][n] \in PageIds /\ EligiblePage(dump[deq[w][n]])

(* a worker holds an article although the reader met a redirect page before *)
OnlyEligibleWitness ==
    /\ \E w \in Workers : held[w].tag = "str"
    /\ \E k \in PageIds : k < pos /\ dump[k].tag = "str" /\ IsRedirect(dump[k].text)

(* C3: a Stage-2 worker is started, and a shard wiki{i} is open for reading,
   only when all Stage-1 workers have exited; the merge runs only when all
   Stage-2 workers have ended. *)
Barriers ==
    /\ (\E w \in Workers : w2pc[w] # "idle") => AllCleanersExited
    /\ pc \in {"open", "merge", "cleanup2", "done"} => AllTokenizersEnded

(* a Stage-2 worker of a two-worker run reads a shard that is not empty *)
BarriersWitness ==
    /\ num_cores = 2
    /\ \E w \in Workers : w2pc[w] = "run" /\ wiki[w] # <<>> /\ w2pos[w] > 1

(* split0 .. split(n-1), concatenated *)
SplitsUpTo(n) == Concat([k \in 1..n |-> split[k - 1]])

(* while merging, the output is the concatenation of the shards copied so
   far; after the last copy it is the concatenation of all of them *)
MergedInOrder ==
    /\ pc = "merge" => out = SplitsUpTo(i)
    /\ (pc = "cleanup2" /\ i = 0) => out = SplitsUpTo(num_cores)

(* C4: on a successful run the final output is the concatenation of
   split0 .. split(N-1) in index order, whatever the order in which the
   workers finished: the merge builds exactly that, and the output does not
   change once the merge is over. *)
MergeIsConcatenation ==
    /\ []MergedInOrder
    /\ [][(pc \in {"cleanup2", "done"}) => (out' = out)]_vars

(* the merge of two different, non-empty shards is complete *)
MergeWitness ==
    /\ pc = "cleanup2" /\ i = 0
    /\ num_cores = 2
    /\ split[0] # <<>> /\ split[1] # <<>> /\ split[0] # split[1]

(* The output of the pipeline when the articles are cleaned one after the
   other into one shard, in the reader's order. *)
EligibleInOrder == SelectSeq(dump, EligiblePage)

SequentialShard ==
    Concat([k \in 1..Len(EligibleInOrder) |-> CleanWikiText(EligibleInOrder[k].text)])

TokenizedShard(shard) ==
    LET lines == FileLines(shard)
    IN  Concat([k \in 1..Len(lines) |->
                  IF Len(lines[k]) < min_len THEN <<>>
                  ELSE SentenceLines(TokenizeSentence(lang, lines[k]))])

SequentialOutput == TokenizedShard(SequentialShard)

LinesOf(text) == {SplitLines(text)[k] : k \in 1..Len(SplitLines(text))}

(* C5: the set of sentences in the final output is the same for every worker
   count and every interleaving: it is the set of the sequential output. *)
SentenceSetInvariant ==
    pc = "done" => LinesOf(out) = LinesOf(SequentialOutput)

(* the line without its terminator *)
Chars(line) == IF EndsWith(line, NL) THEN SubSeq(line, 1, Len(line) - 1) ELSE line

(* C6: every line handed to the sentence splitter, and so the source of
   every output line, has at least min-length characters, not counting the
   line terminator. *)
MinLengthRespected ==
    \A line \in tokenized : Len(Chars(line)) >= min_len

(* C7: with an unsupported language code no Stage-2 worker is started, and
   the run ends with the unsupported-language error. *)
UnsupportedFailsFast ==
    (lang # NoLang /\ lang \notin {"en", "ko"}) =>
        /\ \A w \in Workers : w2pc[w] = "idle"
        /\ (pc = "failed" /\ AllCleanersExited) => err = "NotImplementedError"

(* C8: after a fatal error the output file does not exist; after a
   successful run it does. *)
NoOutputOnFatal ==
    /\ pc = "failed" => OutputFile \notin fs
    /\ pc = "done" => OutputFile \in fs

(* C9: with one worker the final output is a function of the dump, the
   language and min-length alone: the output of cleaning and tokenizing the
   eligible articles in the reader's order. *)
SingleCoreDeterministic ==
    (pc = "done" /\ num_cores = 1) => out = SequentialOutput

(* a one-worker run over two different eligible articles has ended *)
SingleCoreWitness ==
    /\ pc = "done" /\ num_cores = 1
    /\ Len(dump) = 2 /\ EligiblePage(dump[1]) /\ EligiblePage(dump[2])
    /\ dump[1] # dump[2]
    /\ out # <<>>

(* C10: after a successful run no wiki{i}, tmp{i} or split{i} exists. *)
TemporariesRemoved ==
    pc = "done" =>
        \A w \in Workers : fs \cap {WikiFile(w), TmpDir(w), SplitFile(w)} = {}

(* a two-worker run that produced output has ended *)
TemporariesWitness == pc = "done" /\ num_cores = 2 /\ out # <<>>

-----------------------------------------------------------------------------
SentinelsQueued == Cardinality({n \in 1..Len(queue) : queue[n].tag = "None"})
ArticlesQueued == Cardinality({n \in 1..Len(queue) : queue[n].tag = "str"})
CleanersExited == {w \in Workers : w1pc[w] = "exited"}

(* the reader has left its loop over the pages without an exception *)
ReaderExhausted == pos > Len(dump) /\ pc \notin {"start1", "read"}

(* the sentinels the orchestrator has put so far *)
SentinelsPut ==
    IF pc = "finish" THEN i
    ELSE IF ReaderExhausted THEN num_cores
    ELSE 0

(* C11: the queue receives all the articles and then exactly N sentinels,
   none before the reader is exhausted; every Stage-1 worker exits on one
   sentinel of its own, so no worker exits before the reader is exhausted,
   no article is queued once a sentinel was dequeued, and the queue is empty
   when all N workers have exited. *)
SentinelProtocol ==
    /\ \A m, n \in 1..Len(queue) :
          (m < n /\ queue[m].tag = "None") => queue[n].tag = "None"
    /\ SentinelsQueued > 0 => ReaderExhausted
    /\ SentinelsQueued + Cardinality(CleanersExited) = SentinelsPut
    /\ CleanersExited # {} => (ReaderExhausted /\ ArticlesQueued = 0)
    /\ AllCleanersExited => queue = <<>>

(* of two workers one has exited on its sentinel while the other still
   writes an article and its sentinel waits in the queue *)
SentinelWitness ==
    /\ num_cores = 2
    /\ \E w, v \in Workers : w1pc[w] = "exited" /\ w1pc[v] = "write"
    /\ queue = <<Sentinel>>

(* C13: the queue never holds more than 10 x N items, and while it holds
   10 x N items no put of the reader (article or sentinel) completes: only a
   worker's get can change the queue. *)
QueueBounded ==
    /\ Len(queue) <= QueueFactor * num_cores
    /\ Len(queue) = QueueFactor * num_cores => ~ENABLED (ReadPut \/ PutSentinel)

(* the queue is full while the reader has a further article to put *)
QueueFullWitness ==
    /\ Len(queue) = QueueFactor * num_cores
    /\ pc = "read" /\ pos <= Len(dump)

(* a dump without a malformed page and a supported language *)
FaultFreeInput ==
    /\ lang \in {"en", "ko"}
    /\ \A k \in PageIds : dump[k].ns # NoElem /\ (dump[k].ns = "0" => dump[k].tag # NoElem)

(* the run is over: reader exhausted, all workers of both stages exited,
   merge and cleanup finished *)
Completed ==
    /\ pc = "done"
    /\ pos > Len(dump)
    /\ queue = <<>>
    /\ \A w \in Workers : w1pc[w] = "exited" /\ w2pc[w] = "exited"
    /\ fs = {OutputFile}

(* C12: for a fault-free input, under fair scheduling of the orchestrator
   and the workers, the pipeline does not get stuck and eventually
   completes. *)
EventuallyCompletes == FaultFreeInput ~> Completed

(* a run of one worker over the dump that fills the queue has completed *)
CompletesWitness == Completed /\ Len(dump) > QueueFactor * num_cores

-----------------------------------------------------------------------------
(* the artifact was created and is gone *)
WikiRemoved(w) == w1pc[w] \notin {"idle", "started"} /\ WikiFile(w) \notin fs
TmpRemoved(w) == w2pc[w] # "idle" /\ TmpDir(w) \notin fs
SplitRemoved(w) == w2pc[w] \in {"run", "exited"} /\ SplitFile(w) \notin fs

(* C15: a temporary artifact is deleted only after the next stage has fully
   consumed it.  wiki{w} and tmp{w} are gone only when Stage-2 worker w has
   read its shard to the end and returned; split{w} is gone only when the
   merge has copied every shard; a process that reads or writes an artifact
   finds it in place. *)
DeletedAfterConsumed ==
    /\ \A w \in Workers : (WikiRemoved(w) \/ TmpRemoved(w)) => w2pc[w] = "exited"
    /\ \A w \in Workers : SplitRemoved(w) => pc \in {"cleanup2", "done"}
    /\ \A w \in Workers : w1pc[w] \in {"get", "write"} => WikiFile(w) \in fs
    /\ \A w \in Workers :
          w2pc[w] = "run" => {WikiFile(w), SplitFile(w), TmpDir(w)} \subseteq fs

-----------------------------------------------------------------------------
(* the pages Stage-1 worker w has cleaned and written, in dequeue order: all
   it dequeued but the one it still holds *)
Written(w) ==
    IF w1pc[w] = "write" THEN SubSeq(deq[w], 1, Len(deq[w]) - 1) ELSE deq[w]

(* C16: the shard wiki{w} holds the cleaned texts of the articles worker w
   dequeued, in the order in which it dequeued them, and that order is the
   order in which the reader emitted them (the order of the dump). *)
ShardInDequeueOrder ==
    \A w \in Workers :
        /\ WikiFile(w) \in fs =>
              wiki[w] = Concat([k \in 1..Len(Written(w)) |->
                                  CleanWikiText(dump[Written(w)[k]].text)])
        /\ \A m, n \in 1..Len(deq[w]) : m < n => deq[w][m] < deq[w][n]

(* in a two-worker run one worker has written two different articles *)
ShardOrderWitness ==
    /\ num_cores = 2
    /\ \E w \in Workers :
          /\ WikiFile(w) \in fs
          /\ Len(Written(w)) = 2
          /\ dump[Written(w)[1]].text # dump[Written(w)[2]].text

-----------------------------------------------------------------------------
(* The files each process holds open. *)

(* lines 75-85: wiki{w} from open() to file.close() *)
CleanerOpenFiles(w) == IF w1pc[w] \in {"get", "write"} THEN {WikiFile(w)} ELSE {}

(* lines 107-114: wiki{w} and split{w} for the extent of the with block *)
TokenizerOpenFiles(w) ==
    IF w2pc[w] = "run" THEN {WikiFile(w), SplitFile(w)} ELSE {}

(* lines 208-211: the output file for the extent of the merge *)
MainOpenFiles == IF pc = "merge" THEN {OutputFile} ELSE {}

(* a worker process of either stage has been started and has not ended *)
WorkerRunning ==
    \E w \in Workers : \/ w1pc[w] \in {"started", "get", "write"}
                       \/ w2pc[w] \in {"started", "run"}

(* C17: no file is open in two processes at once.  The files of two
   different workers of a stage are disjoint, a Stage-1 worker and a Stage-2
   worker never hold wiki{w} together, no worker holds the output file, and
   while the orchestrator deletes or merges no worker process is running. *)
ExclusiveFiles ==
    /\ \A w, v \in Workers : CleanerOpenFiles(w) \cap TokenizerOpenFiles(v) = {}
    /\ \A w, v \in Workers :
          w # v => /\ CleanerOpenFiles(w) \cap CleanerOpenFiles(v) = {}
                   /\ TokenizerOpenFiles(w) \cap TokenizerOpenFiles(v) = {}
    /\ \A w \in Workers :
          (CleanerOpenFiles(w) \cup TokenizerOpenFiles(w)) \cap MainOpenFiles = {}
    /\ pc \in {"cleanup1", "open", "merge", "cleanup2", "done"} => ~WorkerRunning

(* two Stage-2 workers hold their files open at the same time *)
ExclusiveFilesWitness ==
    /\ num_cores = 2
    /\ \A w \in Workers : w2pc[w] = "run" /\ wiki[w] # <<>>

-----------------------------------------------------------------------------
(* the non-empty sentences the splitter of the language returns for the lines
   handed to it *)
SentencesReturned ==
    UNION {{TokenizeSentence(lang, l)[k] : k \in 1..Len(TokenizeSentence(lang, l))}
             : l \in tokenized} \ {<<>>}

(* C18: every line of split{w} is one non-empty sentence the splitter
   returned; a shard line with no non-empty sentence adds no line, so no line
   of split{w} is empty. *)
OneSentencePerLine ==
    \A w \in Workers :
        SplitFile(w) \in fs =>
            \A k \in 1..Len(SplitLines(split[w])) :
                /\ SplitLines(split[w])[k] # <<>>
                /\ SplitLines(split[w])[k] \in SentencesReturned

-----------------------------------------------------------------------------
(* the cleaned lines of the articles of the dump *)
CleanedLines ==
    UNION {LinesOf(CleanWikiText(dump[k].text)) : k \in {n \in PageIds : EligiblePage(dump[n])}}

(* the lines Stage-2 worker w has read from its shard so far *)
LinesRead(w) == {FileLines(wiki[w])[k] : k \in 1..(w2pos[w] - 1)}

(* C19: every line a Stage-2 worker reads from its shard is exactly one
   cleaned line of exactly one article: the lines of two articles cleaned one
   after the other by the same worker stay separate lines. *)
ShardLinesAreCleanedLines ==
    \A w \in Workers :
        w2pc[w] = "run" => \A l \in LinesRead(w) : LinesOf(l) \subseteq CleanedLines

-----------------------------------------------------------------------------
(* C20: with a supported language every shard is in place when it is opened:
   wiki{w} when Stage-2 worker w is about to open it, every split{w} while
   the merge runs, also for a worker that dequeued no article; the merge
   never fails on a missing file. *)
ShardsInPlace ==
    lang \in Supported =>
        /\ \A w \in Workers : w2pc[w] = "started" => WikiFile(w) \in fs
        /\ pc = "merge" => \A w \in Workers : SplitFile(w) \in fs
        /\ err # "FileNotFoundError"

(* the merge runs over the shards of two workers, one of which dequeued no
   article *)
ShardsInPlaceWitness ==
    /\ lang \in Supported
    /\ pc = "merge"
    /\ num_cores = 2
    /\ \E w, v \in Workers : deq[w] = <<>> /\ deq[v] # <<>>

====
